---- MODULE Spec2Model ----
(***************************************************************************)
(* Model of src/tournament_tracker.py: a Streamlit script that is run from *)
(* top to bottom once per user interaction.  The state that survives from  *)
(* one script run to the next is st.session_state (four display            *)
(* preferences and the DataFrame `data`) and the widgets' own values.      *)
(*                                                                         *)
(* Numbers.  Money amounts entered in the form are modelled as whole       *)
(* numbers.  A float cell of the DataFrame is modelled as an exact         *)
(* fraction [num, den] in lowest terms; den = 0 encodes the two non-finite *)
(* floats: NaN (a missing cell) and Inf, which stands for every outcome of  *)
(* a division by zero (ZeroDivisionError or an infinite value).            *)
(* Rendering calls (st.dataframe, st.pyplot, st.metric, to_excel) are      *)
(* modelled by the value they are given.  The currency symbols of line 27  *)
(* are written as the codes EUR, USD, GBP.                                 *)
(***************************************************************************)
EXTENDS Integers, Sequences, FiniteSets, TLC

VARIABLES
    dark_mode,      \* st.session_state.dark_mode
    language,       \* st.session_state.language
    currency,       \* st.session_state.currency
    player_name,    \* st.session_state.player_name
    data,           \* st.session_state.data: [columns, rows]
    sidebar,        \* values held by the four sidebar widgets
    form,           \* values held by the widgets of the "Tournament Entry" form
    submitted,      \* value of st.form_submit_button in the current run
    pc,             \* position of the script run ("idle": waiting for the user)
    event,          \* what started the current run
    info,           \* the "No tournament data yet" notice is on the page
    table,          \* what st.dataframe was last given   (<<>>: never rendered)
    charts,         \* the three bar charts last drawn     (<<>>: never rendered)
    metrics,        \* the five st.metric values last shown (<<>>: never rendered)
    export,         \* the sheet last written by to_excel  (<<>>: never produced)
    log             \* history: the form values of every submission, in order

vars == <<dark_mode, language, currency, player_name, data, sidebar, form,
          submitted, pc, event, info, table, charts, metrics, export, log>>

prefs == <<dark_mode, language, currency, player_name>>
views == <<info, table, charts, metrics, export>>

----------------------------------------------------------------------------
(* Bounds of the model *)

MaxRecords == 2

(* Widget option lists and sample inputs *)

Languages == <<"English", "French", "Arabic">>
Currencies == <<"EUR", "USD", "GBP">>
PlayerNames == {"Unnamed Player", "Rafa"}
Categories == <<"J30", "J60", "J100", "ITF", "National", "Other">>

Range(s) == {s[i] : i \in DOMAIN s}

FormDefault ==
    [tournament |-> "", date |-> "today", location |-> "", category |-> Categories[1],
     entry_fee |-> 0, flights |-> 0, hotel |-> 0, meals |-> 0, coaching |-> 0,
     misc |-> 0, match_wins |-> 0, match_losses |-> 0, ranking_points |-> 0,
     notes |-> ""]

FormInputs ==
    { [FormDefault EXCEPT !.tournament = "Zero Open"],
      [FormDefault EXCEPT !.tournament = "Algiers J30", !.location = "Algiers",
                          !.entry_fee = 100, !.flights = 200, !.hotel = 50,
                          !.match_wins = 2, !.match_losses = 1],
      [FormDefault EXCEPT !.tournament = "Paris ITF", !.category = "ITF",
                          !.entry_fee = 1, !.flights = 2, !.hotel = 4, !.meals = 8,
                          !.coaching = 16, !.misc = 32,
                          !.match_losses = 1, !.ranking_points = 3, !.notes = "n"],
      [FormDefault EXCEPT !.tournament = "Algiers J30", !.date = "later",
                          !.meals = 10, !.misc = 5,
                          !.match_wins = 1, !.ranking_points = 1] }

----------------------------------------------------------------------------
(* Floats *)

F(n) == [num |-> n, den |-> 1]
NaN == [num |-> 0, den |-> 0]
Inf == [num |-> 1, den |-> 0]
IsFinite(x) == x.den > 0

RECURSIVE GCD(_, _)
GCD(a, b) == IF b = 0 THEN a ELSE GCD(b, a % b)

(* x / n, with x a float and n an integer: the `/` of lines 128, 132, 166, 167 *)
TrueDiv(x, n) ==
    IF ~IsFinite(x) THEN x
    ELSE IF n = 0 THEN Inf
    ELSE IF x.num = 0 THEN F(0)
    ELSE LET g == GCD(x.num, x.den * n)
         IN  [num |-> x.num \div g, den |-> (x.den * n) \div g]

(* f"{x:.2f}": the number of hundredths shown, ties to even *)
Fmt2f(x) ==
    LET n == 100 * x.num
        q == n \div x.den
        r == n % x.den
    IN  IF 2 * r < x.den THEN q
        ELSE IF 2 * r > x.den THEN q + 1
        ELSE IF q % 2 = 0 THEN q ELSE q + 1

----------------------------------------------------------------------------
(* DataFrame *)

Schema ==
    <<"Tournament", "Date", "Location", "Category",
      "Entry Fee", "Flights", "Hotel", "Meals", "Coaching", "Miscellaneous",
      "Match Wins", "Match Losses", "Ranking Points", "Notes">>

CostColumns == <<"Entry Fee", "Flights", "Hotel", "Meals", "Coaching", "Miscellaneous">>

EmptyFrame == [columns |-> Schema, rows |-> <<>>]

(* faulty variant: a frame is empty only when it has no columns *)
EmptyNoColumns(df) == Len(df.columns) = 0

(* DataFrame.empty *)
Empty(df) == Len(df.rows) = 0 \/ Len(df.columns) = 0

(* pd.DataFrame.from_dict of lines 108-113: one row, the 14 columns *)
NewRow(f) ==
    [columns |-> Schema,
     rows |-> << [c \in Range(Schema) |->
        CASE c = "Tournament" -> f.tournament
          [] c = "Date" -> f.date
          [] c = "Location" -> f.location
          [] c = "Category" -> f.category
          [] c = "Entry Fee" -> f.entry_fee
          [] c = "Flights" -> f.flights
          [] c = "Hotel" -> f.hotel
          [] c = "Meals" -> f.meals
          [] c = "Coaching" -> f.coaching
          [] c = "Miscellaneous" -> f.misc
          [] c = "Match Wins" -> f.match_wins
          [] c = "Match Losses" -> f.match_losses
          [] c = "Ranking Points" -> f.ranking_points
          [] c = "Notes" -> f.notes] >>]

(* the elements of sequence s that are not in set S, in order *)
RECURSIVE Without(_, _)
Without(s, S) ==
    IF s = <<>> THEN <<>>
    ELSE IF Head(s) \in S THEN Without(Tail(s), S)
    ELSE <<Head(s)>> \o Without(Tail(s), S)

(* a row re-indexed on `cols`: a column the row lacks is a missing cell *)
Reindex(row, cols) ==
    [c \in Range(cols) |-> IF c \in DOMAIN row THEN row[c] ELSE NaN]

(* faulty variant: the new frame's rows are put first *)
ConcatNewestFirst(a, b) ==
    LET cols == a.columns \o Without(b.columns, Range(a.columns))
        all == b.rows \o a.rows
    IN  [columns |-> cols,
         rows |-> [i \in 1..Len(all) |-> Reindex(all[i], cols)]]

(* pd.concat([a, b], ignore_index=True): outer join of the columns, a's first *)
Concat(a, b) ==
    LET cols == a.columns \o Without(b.columns, Range(a.columns))
        all == a.rows \o b.rows
    IN  [columns |-> cols,
         rows |-> [i \in 1..Len(all) |-> Reindex(all[i], cols)]]

(* df[name] = vals: overwrite the column, or add it as the last one *)
SetColumn(df, name, vals) ==
    [columns |-> IF name \in Range(df.columns) THEN df.columns
                 ELSE Append(df.columns, name),
     rows |-> [i \in 1..Len(df.rows) |->
        [c \in DOMAIN df.rows[i] \cup {name} |->
            IF c = name THEN vals[i] ELSE df.rows[i][c]]]]

(* df[name].sum() of an integer column *)
RECURSIVE SumInt(_, _)
SumInt(rows, name) ==
    IF rows = <<>> THEN 0 ELSE rows[1][name] + SumInt(Tail(rows), name)

(* df[name].sum() of a float column; a missing cell is skipped (skipna) *)
AddF(x, y) ==
    IF ~IsFinite(x) THEN (IF x = NaN THEN y ELSE x)
    ELSE IF ~IsFinite(y) THEN (IF y = NaN THEN x ELSE y)
    ELSE LET n == x.num * y.den + y.num * x.den
             d == x.den * y.den
             g == GCD(n, d)
         IN  [num |-> n \div g, den |-> d \div g]

RECURSIVE SumFloat(_, _)
SumFloat(rows, name) ==
    IF rows = <<>> THEN F(0) ELSE AddF(rows[1][name], SumFloat(Tail(rows), name))

(* df[name] as a sequence *)
Column(df, name) == [i \in 1..Len(df.rows) |-> df.rows[i][name]]

----------------------------------------------------------------------------
(* Cost calculations, lines 122-133 *)

(* df[[the six cost columns]].sum(axis=1), for one row *)
RECURSIVE SumCells(_, _)
SumCells(row, cols) ==
    IF cols = <<>> THEN 0 ELSE row[Head(cols)] + SumCells(row, Tail(cols))

(* faulty variant: the last cost column is left out of the sum *)
TotalCostWithoutMisc(row) == F(SumCells(row, SubSeq(CostColumns, 1, 5)))

(* faulty variant: a Total Cost already stored in the row is added to the sum *)
TotalCostAccumulating(row) ==
    F(SumCells(row, CostColumns)
        + (IF "Total Cost" \in DOMAIN row /\ IsFinite(row["Total Cost"])
           THEN row["Total Cost"].num ELSE 0))

TotalCost(row) == F(SumCells(row, CostColumns))

(* faulty variant: the division is not guarded *)
CostPerPointUnguarded(row) == TrueDiv(row["Total Cost"], row["Ranking Points"])

(* lambda row: row["Total Cost"] / row["Ranking Points"] if row["Ranking Points"] > 0 else 0 *)
CostPerPoint(row) ==
    IF row["Ranking Points"] > 0
    THEN TrueDiv(row["Total Cost"], row["Ranking Points"]) ELSE F(0)

(* lambda row: row["Total Cost"] / row["Match Wins"] if row["Match Wins"] > 0 else 0 *)
CostPerWin(row) ==
    IF row["Match Wins"] > 0
    THEN TrueDiv(row["Total Cost"], row["Match Wins"]) ELSE F(0)

(* faulty variant: the columns are computed once and kept *)
DeriveMissingColumnsOnly(df) ==
    IF "Total Cost" \in Range(df.columns) THEN df
    ELSE LET d1 == SetColumn(df, "Total Cost", [i \in 1..Len(df.rows) |-> TotalCost(df.rows[i])])
             d2 == SetColumn(d1, "Cost per Point", [i \in 1..Len(d1.rows) |-> CostPerPoint(d1.rows[i])])
         IN  SetColumn(d2, "Cost per Win", [i \in 1..Len(d2.rows) |-> CostPerWin(d2.rows[i])])

(* the three column assignments, in the order of the script; sum(axis=1)   *)
(* and apply(axis=1) compute one value per row                            *)
Derive(df) ==
    LET d1 == SetColumn(df, "Total Cost", [i \in 1..Len(df.rows) |-> TotalCost(df.rows[i])])
        d2 == SetColumn(d1, "Cost per Point", [i \in 1..Len(d1.rows) |-> CostPerPoint(d1.rows[i])])
    IN  SetColumn(d2, "Cost per Win", [i \in 1..Len(d2.rows) |-> CostPerWin(d2.rows[i])])

----------------------------------------------------------------------------
(* Rendering sinks *)

(* ax.bar(x, height); ax.set_ylabel(...); st.pyplot(fig) *)
Bar(df, col, ylabel) ==
    [x |-> Column(df, "Tournament"), height |-> Column(df, col), ylabel |-> ylabel]

Charts(df, cur) ==
    << Bar(df, "Total Cost", cur),
       Bar(df, "Cost per Point", cur \o "/Point"),
       Bar(df, "Cost per Win", cur \o "/Win") >>

(* f"{currency}{x:.2f}" and the placeholder "-" *)
Money(cur, x) == [text |-> "amount", currency |-> cur, value |-> x, cents |-> Fmt2f(x)]
Placeholder == [text |-> "-", currency |-> "", value |-> NaN, cents |-> 0]

AvgCost(cur, total_cost, total) ==
    IF total > 0 THEN Money(cur, TrueDiv(total_cost, total)) ELSE Placeholder

(* faulty variant: the averages are the means of the per-record ratios *)
MetricsMeanOfRatios(df, cur) ==
    LET total_cost == SumFloat(df.rows, "Total Cost")
        total_points == SumInt(df.rows, "Ranking Points")
        total_wins == SumInt(df.rows, "Match Wins")
        mean(col) == TrueDiv(SumFloat(df.rows, col), Len(df.rows))
    IN  [total_spent |-> Money(cur, total_cost),
         total_points |-> total_points,
         total_wins |-> total_wins,
         avg_cost_per_point |-> IF total_points > 0
                                THEN Money(cur, mean("Cost per Point")) ELSE Placeholder,
         avg_cost_per_win |-> IF total_wins > 0
                              THEN Money(cur, mean("Cost per Win")) ELSE Placeholder]

(* Cumulative Stats, lines 157-167 *)
Metrics(df, cur) ==
    LET total_cost == SumFloat(df.rows, "Total Cost")
        total_points == SumInt(df.rows, "Ranking Points")
        total_wins == SumInt(df.rows, "Match Wins")
    IN  [total_spent |-> Money(cur, total_cost),
         total_points |-> total_points,
         total_wins |-> total_wins,
         avg_cost_per_point |-> AvgCost(cur, total_cost, total_points),
         avg_cost_per_win |-> AvgCost(cur, total_cost, total_wins)]

(* df.to_excel(output, index=False): a header row, then one row per record *)
ToExcel(df) ==
    [header |-> df.columns,
     body |-> [i \in 1..Len(df.rows) |->
                 [j \in 1..Len(df.columns) |-> df.rows[i][df.columns[j]]]]]

----------------------------------------------------------------------------
(* Session start: the preferences' defaults and the empty ledger; the first *)
(* script run is about to begin.                                            *)

Init ==
    /\ dark_mode = FALSE
    /\ language = "English"
    /\ currency = Currencies[1]
    /\ player_name = "Unnamed Player"
    /\ data = EmptyFrame
    /\ sidebar = [dark_mode |-> FALSE, language |-> Languages[1],
                  currency |-> Currencies[1], player_name |-> "Unnamed Player"]
    /\ form = FormDefault
    /\ submitted = FALSE
    /\ pc = "sidebar"
    /\ event = "load"
    /\ info = FALSE
    /\ table = <<>>
    /\ charts = <<>>
    /\ metrics = <<>>
    /\ export = <<>>
    /\ log = <<>>

(* User interactions; each one starts a script run *)

(* the user fills the form and presses "Add Tournament" *)
SubmitForm(f) ==
    /\ pc = "idle"
    /\ Len(log) < MaxRecords
    /\ form' = f
    /\ submitted' = TRUE
    /\ event' = "submit"
    /\ log' = Append(log, f)
    /\ pc' = "sidebar"
    /\ UNCHANGED <<prefs, data, sidebar, views>>

(* the user changes one sidebar widget *)
ChangePreference(w) ==
    /\ pc = "idle"
    /\ w # sidebar
    /\ Cardinality({k \in DOMAIN w : w[k] # sidebar[k]}) = 1
    /\ sidebar' = w
    /\ event' = "preference"
    /\ pc' = "sidebar"
    /\ UNCHANGED <<prefs, data, form, submitted, views, log>>

(* any other interaction, e.g. pressing the download button *)
Rerun ==
    /\ pc = "idle"
    /\ event' = "rerun"
    /\ pc' = "sidebar"
    /\ UNCHANGED <<prefs, data, sidebar, form, submitted, views, log>>

(* The script run *)

(* lines 22-28 *)
Sidebar ==
    /\ pc = "sidebar"
    /\ dark_mode' = sidebar.dark_mode
    /\ language' = sidebar.language
    /\ currency' = sidebar.currency
    /\ player_name' = sidebar.player_name
    /\ pc' = "form"
    /\ UNCHANGED <<data, sidebar, form, submitted, event, views, log>>

(* faulty variant: the row is appended whether or not the button was pressed *)
FormIgnoresSubmitted ==
    /\ pc = "form"
    /\ data' = Concat(data, NewRow(form))
    /\ pc' = "display"
    /\ UNCHANGED <<prefs, sidebar, form, submitted, event, views, log>>

(* lines 86-115 *)
Form ==
    /\ pc = "form"
    /\ data' = IF submitted THEN Concat(data, NewRow(form)) ELSE data
    /\ pc' = "display"
    /\ UNCHANGED <<prefs, sidebar, form, submitted, event, views, log>>

(* the end of a script run: the button's value does not outlive the run *)
EndRun ==
    /\ pc' = "idle"
    /\ submitted' = FALSE
    /\ UNCHANGED event

(* lines 118-120 *)
ShowTable ==
    /\ pc = "display"
    /\ ~Empty(data)
    /\ table' = <<data>>
    /\ info' = FALSE
    /\ pc' = "derive"
    /\ UNCHANGED <<prefs, data, sidebar, form, submitted, event, charts, metrics,
                   export, log>>

(* lines 174-175 *)
ShowInfo ==
    /\ pc = "display"
    /\ Empty(data)
    /\ info' = TRUE
    /\ EndRun
    /\ UNCHANGED <<prefs, data, sidebar, form, table, charts, metrics, export, log>>

(* lines 122-133 *)
CostCalculations ==
    /\ pc = "derive"
    /\ data' = Derive(data)
    /\ pc' = "charts"
    /\ UNCHANGED <<prefs, sidebar, form, submitted, event, views, log>>

(* lines 135-155 *)
RoiAnalysis ==
    /\ pc = "charts"
    /\ charts' = <<Charts(data, currency)>>
    /\ pc' = "metrics"
    /\ UNCHANGED <<prefs, data, sidebar, form, submitted, event, info, table,
                   metrics, export, log>>

(* lines 157-167 *)
CumulativeStats ==
    /\ pc = "metrics"
    /\ metrics' = <<Metrics(data, currency)>>
    /\ pc' = "export"
    /\ UNCHANGED <<prefs, data, sidebar, form, submitted, event, info, table,
                   charts, export, log>>

(* lines 169-173 *)
ExportReport ==
    /\ pc = "export"
    /\ export' = <<ToExcel(data)>>
    /\ EndRun
    /\ UNCHANGED <<prefs, data, sidebar, form, info, table, charts, metrics, log>>

SidebarSettings ==
    [dark_mode : BOOLEAN, language : Range(Languages),
     currency : Range(Currencies), player_name : PlayerNames]

Next ==
    \/ \E f \in FormInputs : SubmitForm(f)
    \/ \E w \in SidebarSettings : ChangePreference(w)
    \/ Rerun
    \/ Sidebar
    \/ Form
    \/ ShowTable
    \/ ShowInfo
    \/ CostCalculations
    \/ RoiAnalysis
    \/ CumulativeStats
    \/ ExportReport

Spec == Init /\ [][Next]_vars

----------------------------------------------------------------------------
(* Vocabulary of the properties *)

DerivedColumns == <<"Total Cost", "Cost per Point", "Cost per Win">>

(* the script run, if any, is past the cost calculations *)
DeriveFinished == pc \in {"charts", "metrics", "export", "idle"}

(* no script run is in progress *)
Idle == pc = "idle"

NRows == Len(data.rows)

(* the sum of the six cost fields of a row, written out *)
CostOf(row) ==
    row["Entry Fee"] + row["Flights"] + row["Hotel"] + row["Meals"]
        + row["Coaching"] + row["Miscellaneous"]

(* the row carries the 14 values of form submission f *)
Carries(row, f) ==
    /\ row["Tournament"] = f.tournament
    /\ row["Date"] = f.date
    /\ row["Location"] = f.location
    /\ row["Category"] = f.category
    /\ row["Entry Fee"] = f.entry_fee
    /\ row["Flights"] = f.flights
    /\ row["Hotel"] = f.hotel
    /\ row["Meals"] = f.meals
    /\ row["Coaching"] = f.coaching
    /\ row["Miscellaneous"] = f.misc
    /\ row["Match Wins"] = f.match_wins
    /\ row["Match Losses"] = f.match_losses
    /\ row["Ranking Points"] = f.ranking_points
    /\ row["Notes"] = f.notes

(* the 14 submitted fields of a row *)
Submitted14(row) == [c \in Range(Schema) |-> row[c]]

(* float x is the quotient total / n *)
IsQuotient(x, total, n) == IsFinite(x) /\ x.num * n = total * x.den

(* c hundredths is float x rounded to two decimals *)
IsRounded(c, x) ==
    /\ 2 * (c * x.den - 100 * x.num) <= x.den
    /\ 2 * (100 * x.num - c * x.den) <= x.den

RECURSIVE SumCost(_)
SumCost(rows) == IF rows = <<>> THEN 0 ELSE CostOf(rows[1]) + SumCost(Tail(rows))

RECURSIVE SumOf(_, _)
SumOf(rows, c) == IF rows = <<>> THEN 0 ELSE rows[1][c] + SumOf(Tail(rows), c)

(* the row holds the three derived values its own fields give *)
DerivedConsistent(row) ==
    /\ Range(DerivedColumns) \subseteq DOMAIN row
    /\ row["Total Cost"] = F(CostOf(row))
    /\ IF row["Ranking Points"] = 0 THEN row["Cost per Point"] = F(0)
       ELSE IsQuotient(row["Cost per Point"], CostOf(row), row["Ranking Points"])
    /\ IF row["Match Wins"] = 0 THEN row["Cost per Win"] = F(0)
       ELSE IsQuotient(row["Cost per Win"], CostOf(row), row["Match Wins"])

----------------------------------------------------------------------------
(* C1: once the cost calculations of a script run have finished, every     *)
(* record of the ledger has a Total Cost equal to the sum of its own six   *)
(* cost fields, all-zero records included.                                 *)
C1_TotalCostIsSumOfCosts ==
    DeriveFinished =>
        \A i \in 1..NRows :
            /\ "Total Cost" \in DOMAIN data.rows[i]
            /\ data.rows[i]["Total Cost"] = F(CostOf(data.rows[i]))

C1_Witness ==
    /\ Idle
    /\ \E i, j \in 1..NRows :
        /\ CostOf(data.rows[i]) = 0 /\ data.rows[i]["Total Cost"] = F(0)
        /\ data.rows[j]["Entry Fee"] = 100 /\ data.rows[j]["Flights"] = 200
        /\ data.rows[j]["Hotel"] = 50 /\ data.rows[j]["Total Cost"] = F(350)

(* C2: once the cost calculations have finished, each of the two ratios of *)
(* every record is exactly 0 when its denominator is 0 and is Total Cost   *)
(* divided by the denominator when the denominator is positive; it is      *)
(* never NaN or infinite.                                                  *)
C2_RatiosGuardZeroDenominator ==
    DeriveFinished =>
        \A i \in 1..NRows :
            LET row == data.rows[i] IN
            /\ {"Cost per Point", "Cost per Win"} \subseteq DOMAIN row
            /\ IsFinite(row["Cost per Point"]) /\ IsFinite(row["Cost per Win"])
            /\ IF row["Ranking Points"] = 0 THEN row["Cost per Point"] = F(0)
               ELSE IsQuotient(row["Cost per Point"], CostOf(row), row["Ranking Points"])
            /\ IF row["Match Wins"] = 0 THEN row["Cost per Win"] = F(0)
               ELSE IsQuotient(row["Cost per Win"], CostOf(row), row["Match Wins"])

C2_Witness ==
    /\ Idle
    /\ \E i \in 1..NRows :
        /\ CostOf(data.rows[i]) = 350
        /\ data.rows[i]["Match Wins"] = 2 /\ data.rows[i]["Ranking Points"] = 0
        /\ data.rows[i]["Cost per Point"] = F(0)
        /\ data.rows[i]["Cost per Win"] = F(175)
    /\ \E j \in 1..NRows :
        /\ data.rows[j]["Ranking Points"] = 3
        /\ data.rows[j]["Cost per Point"] = F(21)

(* C3: the ledger is append-only.  Outside the interval between a press   *)
(* of "Add Tournament" and the append it causes, the ledger holds exactly  *)
(* one record per submission, in submission order, carrying the submitted  *)
(* values; a step of the program either appends exactly one record (the    *)
(* form step of a submitting run) or keeps the number of records, and in   *)
(* both cases leaves the 14 submitted fields of every earlier record as    *)
(* they were, at the same position.                                        *)
LedgerIsLog ==
    /\ NRows = Len(log)
    /\ \A i \in 1..NRows : Carries(data.rows[i], log[i])

AppendOnlyStep ==
    /\ Len(data.rows') = (IF pc = "form" /\ submitted THEN NRows + 1 ELSE NRows)
    /\ \A i \in 1..NRows : Submitted14(data.rows'[i]) = Submitted14(data.rows[i])

C3_LedgerAppendOnly ==
    /\ [](pc \notin {"sidebar", "form"} => LedgerIsLog)
    /\ [][AppendOnlyStep]_vars

C3_Witness ==
    /\ Idle
    /\ NRows = 2
    /\ log[1] # log[2]
    /\ Carries(data.rows[1], log[1])
    /\ Carries(data.rows[2], log[2])

(* C4: after a script run over a non-empty ledger, "Avg. Cost per Point"   *)
(* is the placeholder "-" exactly when the ranking points of all records   *)
(* sum to 0, and otherwise is the quotient (sum of all cost fields of all  *)
(* records) / (sum of ranking points), shown to two decimals; likewise     *)
(* "Avg. Cost per Win" with the match wins.  Ratios of sums, not means of  *)
(* the per-record ratios.                                                  *)
IsAverage(m, total) ==
    IF total = 0 THEN m = Placeholder
    ELSE /\ m.text # "-"
         /\ IsQuotient(m.value, SumCost(data.rows), total)
         /\ IsRounded(m.cents, m.value)

C4_AveragesAreRatiosOfSums ==
    (Idle /\ NRows > 0) =>
        /\ metrics # <<>>
        /\ IsAverage(metrics[1].avg_cost_per_point, SumOf(data.rows, "Ranking Points"))
        /\ IsAverage(metrics[1].avg_cost_per_win, SumOf(data.rows, "Match Wins"))

(* wins sum to 0, points do not, and the mean of the per-record ratios     *)
(* (0 and 21) is not the ratio of the sums (63 / 3)                        *)
C4_Witness ==
    /\ Idle
    /\ NRows = 2
    /\ SumOf(data.rows, "Match Wins") = 0
    /\ SumOf(data.rows, "Ranking Points") = 3
    /\ SumCost(data.rows) = 63
    /\ data.rows[1]["Cost per Point"] # data.rows[2]["Cost per Point"]
    /\ metrics[1].avg_cost_per_win = Placeholder
    /\ metrics[1].avg_cost_per_point.value = F(21)
    /\ metrics[1].avg_cost_per_point.cents = 2100

(* C5 as stated: for the empty ledger the derive step still runs and the   *)
(* aggregates are shown as placeholders.                                   *)
C5_EmptyLedgerShowsPlaceholders ==
    (Idle /\ NRows = 0) =>
        /\ metrics # <<>>
        /\ metrics[1].avg_cost_per_point = Placeholder
        /\ metrics[1].avg_cost_per_win = Placeholder

(* C5 amended: for the empty ledger a script run skips the cost            *)
(* calculations; the ledger keeps its 14 columns and no rows, no table,    *)
(* chart, aggregate or export is produced, and the run ends by showing the *)
(* "no tournament data yet" notice.                                        *)
C5_EmptyLedgerShowsNotice ==
    NRows = 0 =>
        /\ data = EmptyFrame
        /\ table = <<>> /\ charts = <<>> /\ metrics = <<>> /\ export = <<>>
        /\ (Idle => info)

C5_Witness == Idle /\ NRows = 0 /\ info /\ event = "rerun"

(* C6 as stated: the cost calculations leave the stored ledger as it was,  *)
(* each stored record carrying only the 14 submitted fields.               *)
C6_DeriveLeavesLedgerAlone ==
    [][pc = "derive" =>
        /\ data' = data
        /\ \A i \in 1..Len(data.rows') : DOMAIN data.rows'[i] = Range(Schema)]_vars

(* C7: the sheet produced by a script run has a header of the 14 schema    *)
(* columns followed by Total Cost, Cost per Point, Cost per Win, and one   *)
(* row per submission, in submission order; each row carries the submitted *)
(* values and the three derived values computed from them, the row of the  *)
(* record appended in the same run included.                               *)
RowOfCells(cells, header) ==
    [c \in Range(header) |-> cells[CHOOSE j \in 1..Len(header) : header[j] = c]]

C7_ExportRowsAreCurrent ==
    (Idle /\ NRows > 0) =>
        /\ export # <<>>
        /\ export[1].header = Schema \o DerivedColumns
        /\ Len(export[1].body) = Len(log)
        /\ \A i \in 1..Len(export[1].body) :
            LET cells == export[1].body[i]
                row == RowOfCells(cells, export[1].header)
            IN  /\ Len(cells) = 17
                /\ Carries(row, log[i])
                /\ DerivedConsistent(row)

(* the second record was appended in the run that produced the sheet *)
C7_Witness ==
    /\ Idle
    /\ event = "submit"
    /\ NRows = 2
    /\ Len(export[1].body) = 2
    /\ export[1].body[2][15] = F(63)
    /\ export[1].body[2][16] = F(21)

(* the numbers of the derived view: the ledger with its derived columns,  *)
(* the bars, the aggregates and the sheet, without the currency labels     *)
Amount(m) == <<m.text, m.value, m.cents>>

NumericView ==
    << data,
       [k \in DOMAIN charts |->
           [j \in DOMAIN charts[k] |-> <<charts[k][j].x, charts[k][j].height>>]],
       [k \in DOMAIN metrics |->
           << Amount(metrics[k].total_spent), metrics[k].total_points,
              metrics[k].total_wins, Amount(metrics[k].avg_cost_per_point),
              Amount(metrics[k].avg_cost_per_win) >>],
       export >>

(* C8: a script run without a form submission re-derives to the same       *)
(* result: none of its steps changes the ledger (derived columns           *)
(* included), the bars, the aggregates or the sheet left by the previous   *)
(* run.                                                                    *)
C8_RederiveIsIdempotent ==
    [][(~submitted /\ ~submitted') => NumericView' = NumericView]_vars

C8_Witness ==
    /\ Idle
    /\ event = "rerun"
    /\ NRows = 2
    /\ data.rows[2]["Total Cost"] = F(350)
    /\ charts[1][1].height[2] = F(350)
    /\ metrics[1].total_spent.cents = 35000 + 100 * CostOf(data.rows[1])

(* C9: a change of a display preference, and the script run it starts,     *)
(* never appends, removes or alters a ledger record and never changes a    *)
(* number of the derived view.                                             *)
C9_PreferencesLeaveDataAlone ==
    [][event' = "preference" =>
        /\ log' = log
        /\ Len(data.rows') = NRows
        /\ NumericView' = NumericView]_vars

(* the run started by a currency change has re-rendered the aggregates *)
C9_Witness ==
    /\ Idle
    /\ event = "preference"
    /\ NRows > 0
    /\ currency # Currencies[1]
    /\ metrics[1].total_spent.currency = currency
    /\ dark_mode

(* C10 as stated: every view rendered by a run shows, for every record     *)
(* (the one just appended included), derived values consistent with that   *)
(* record's fields.                                                        *)
C10_RenderedViewsShowDerived ==
    /\ table # <<>> =>
        \A i \in 1..Len(table[1].rows) : DerivedConsistent(table[1].rows[i])
    /\ charts # <<>> =>
        \A i \in 1..Len(charts[1][1].height) :
            charts[1][1].height[i] = F(CostOf(data.rows[i]))

====
